---- MODULE Spec2Model ----
(***************************************************************************)
(* A model of logo_analyzer (src/main.py, src/functions.py).               *)
(*                                                                         *)
(* Strings are sequences of one-character strings, so that split, slicing  *)
(* (image[:3]) and concatenation are computed as Python computes them.     *)
(* An image file is a record: pil (PIL's Image.open and dhash succeed),    *)
(* cv (cv2.imread returns an image) and hash (the dhash of its pixels).    *)
(***************************************************************************)
EXTENDS Integers, Sequences, FiniteSets, TLC

VARIABLES
    pc,          \* position of the main thread inside download_logos
    df,          \* the "domain" column of the data frame of main.py:87
    selected,    \* selected_domains (main.py:96)
    logos,       \* the folder "logos": filename -> file content
    duplicates,  \* the folder "duplicates": filename -> file content
    hashes,      \* the global dict hashes: hash -> logo path (main.py:15)
    hash_lock,   \* the global Lock: 0 when free, else the fetch task holding it
    fetch,       \* the fetch pool's tasks, one per selected domain
    files,       \* the listing taken by move_similar_logos (main.py:49)
    checked_files, \* main.py:48
    sub,         \* the submission loop's indexes <<i, j>> (main.py:66-71)
    tasks,       \* the comparison pool's submitted tasks, in submission order
    to_sweep,    \* the files delete_corrupted_images still has to visit
    moves,       \* history: the moves into "duplicates" that happened, with the phase
    logos0,      \* history: the folder "logos" when the run started
    first_lookup, \* history: hash -> the path whose task looked the hash up first
    method,      \* analyze_logos: its argument, or "none" outside analyze mode
    todo,        \* analyze_logos: the part of os.listdir it still has to visit
    analysis_results, \* analyze_logos: the rows collected so far (main.py:119)
    csv_file,    \* the file analysis_<method>.csv: its rows, or NoFile
    md_file,     \* the file color_analysis.md: heading -> logos, or NoFile
    csv0,        \* history: analysis_<method>.csv when the run started
    rgb_list,    \* the cluster colours extract_main_colors returned last
    emotion      \* the label analyze_emotion returned last, or "none"

avars == <<method, todo, analysis_results, csv_file, md_file, csv0>>
evars == <<rgb_list, emotion>>

vars == <<pc, df, selected, logos, duplicates, hashes, hash_lock, fetch,
          files, checked_files, sub, tasks, to_sweep, moves, logos0, first_lookup,
          avars, evars>>

----------------------------------------------------------------------------
(* Bounds and program constants *)

MaxDomains == 3
MaxFiles == 3
MaxFairDomains == 2

FetchPoolWidth == 10
ComparePoolWidth == 5
SimilarityThreshold == 49
num_colors == 5
PrefixLen == 3

----------------------------------------------------------------------------
(* Strings *)

Min(a, b) == IF a < b THEN a ELSE b

\* s[:n]
Take(s, n) == SubSeq(s, 1, Min(n, Len(s)))

\* The index of the first character of s that is in seps, Len(s)+1 when none is.
RECURSIVE FirstIn(_, _, _)
FirstIn(s, seps, i) ==
    IF i > Len(s) THEN i
    ELSE IF s[i] \in seps THEN i
    ELSE FirstIn(s, seps, i + 1)

\* re.split / str.split on any of seps, element [0]
SplitFirst(s, seps) == SubSeq(s, 1, FirstIn(s, seps, 1) - 1)

PngSuffix == <<".", "p", "n", "g">>

\* functions.py:41-44
extract_brand(domain) == SplitFirst(SplitFirst(domain, {"."}), {"-", "_"})

\* main.py:20 and functions.py:80: f"{domain.split('.')[0]}.png" inside the folder
logo_path(domain) == SplitFirst(domain, {"."}) \o PngSuffix

Range(s) == {s[i] : i \in 1..Len(s)}

\* Faulty variant: the last domain of every brand is kept instead of the first.
RECURSIVE select_last(_)
select_last(s) ==
    IF s = <<>> THEN <<>>
    ELSE LET rest == select_last(SubSeq(s, 2, Len(s)))
         IN IF \E k \in 2..Len(s) : extract_brand(s[k]) = extract_brand(s[1])
            THEN rest
            ELSE <<s[1]>> \o rest

\* main.py:89-96: brand_dict keeps brands in first-seen order and, per brand, the
\* domains in input order; selected_domains takes domains[0] of every brand.
RECURSIVE select_domains(_)
select_domains(s) ==
    IF s = <<>> THEN <<>>
    ELSE LET front == select_domains(SubSeq(s, 1, Len(s) - 1))
             last == s[Len(s)]
         IN IF \E k \in 1..Len(front) : extract_brand(front[k]) = extract_brand(last)
            THEN front
            ELSE Append(front, last)

----------------------------------------------------------------------------
(* Inputs *)

FooBarCom == <<"f","o","o","-","b","a","r",".","c","o","m">>
FoobazNet == <<"f","o","o","b","a","z",".","n","e","t">>
FooXOrg   == <<"f","o","o","_","x",".","o","r","g">>
XyIo      == <<"x","y",".","i","o">>

DomainPool == {FooBarCom, FoobazNet, FooXOrg, XyIo}

\* main.py:87: the column after dropna().drop_duplicates() holds no value twice
DomainLists ==
    {s \in UNION {[1..n -> DomainPool] : n \in 0..MaxDomains} :
        \A a, b \in DOMAIN s : s[a] = s[b] => a = b}

Corrupt == [pil |-> FALSE, cv |-> FALSE, hash |-> 0]
Ico1    == [pil |-> TRUE,  cv |-> FALSE, hash |-> 1]
Img1    == [pil |-> TRUE,  cv |-> TRUE,  hash |-> 1]
Img2    == [pil |-> TRUE,  cv |-> TRUE,  hash |-> 2]

\* What a download can leave on disk (functions.py:78-83)
Contents == {Corrupt, Ico1, Img1, Img2}

\* Values of (similarity + 1) / 2 * 100 (functions.py:116), in whole percent
Scores == {49, 50, 60, 90}

Listings(S) ==
    {p \in [1..Cardinality(S) -> S] : \A a, b \in 1..Cardinality(S) : p[a] = p[b] => a = b}

\* f without key k; f with k -> v
Drop(f, k) == [x \in DOMAIN f \ {k} |-> f[x]]
Put(f, k, v) == [x \in DOMAIN f \cup {k} |-> IF x = k THEN v ELSE f[x]]

Empty == [x \in {} |-> 0]

\* A file that does not exist, and a file with its content
NoFile == [exists |-> FALSE]
File(content) == [exists |-> TRUE, content |-> content]

\* What an earlier run may have left in "logos": nothing, or one file at the
\* path of xy.io, undecodable or a good image.
StaleFolders == {Empty} \cup {Put(Empty, logo_path(XyIo), c) : c \in {Corrupt, Img1}}

----------------------------------------------------------------------------
(* download_logos, main.py:83-113 *)

Init ==
    /\ pc = "start"
    /\ df \in DomainLists
    /\ selected = <<>>
    /\ logos \in StaleFolders
    /\ logos0 = logos
    /\ duplicates = Empty
    /\ hashes = Empty
    /\ hash_lock = 0
    /\ fetch = <<>>
    /\ files = <<>>
    /\ checked_files = {}
    /\ sub = <<1, 2>>
    /\ tasks = <<>>
    /\ to_sweep = {}
    /\ moves = {}
    /\ first_lookup = Empty
    /\ method = "none"
    /\ todo = <<>>
    /\ analysis_results = <<>>
    /\ csv_file = NoFile
    /\ md_file = NoFile
    /\ csv0 = NoFile
    /\ rgb_list = <<>>
    /\ emotion = "none"

\* main.py:87-104: read, group by brand, select, and hand every selected domain
\* to the fetch pool (executor.map submits them all at once).
SelectDomains ==
    /\ pc = "start"
    /\ selected' = select_domains(df)
    /\ fetch' = [w \in 1..Len(selected') |-> [pc |-> "queued", hash_value |-> 0]]
    /\ pc' = "fetch"
    /\ UNCHANGED <<df, logos, duplicates, hashes, hash_lock, files, checked_files,
                   sub, tasks, to_sweep, moves, logos0, first_lookup, avars, evars>>

FetchRunning == {w \in DOMAIN fetch : fetch[w].pc \notin {"queued", "done"}}

\* A pool thread takes the next queued task (FIFO work queue, max_workers=10).
StartFetch(w) ==
    /\ fetch[w].pc = "queued"
    /\ \A v \in 1..(w - 1) : fetch[v].pc # "queued"
    /\ Cardinality(FetchRunning) < FetchPoolWidth
    /\ fetch' = [fetch EXCEPT ![w].pc = "download"]
    /\ UNCHANGED <<pc, df, selected, logos, duplicates, hashes, hash_lock, files,
                   checked_files, sub, tasks, to_sweep, moves, logos0, first_lookup, avars, evars>>

\* functions.py:71-81 download_logo up to open(file, "wb"): nothing is written
\* (no logo URL, a network failure, a status other than 200) and download_logo
\* returns, or the file at the logo path is created or truncated: it is empty,
\* an undecodable file, while the task waits for the body.
Download(w) ==
    /\ fetch[w].pc = "download"
    /\ \/ /\ UNCHANGED logos
          /\ fetch' = [fetch EXCEPT ![w].pc = "exists"]
       \/ /\ logos' = Put(logos, logo_path(selected[w]), Corrupt)
          /\ fetch' = [fetch EXCEPT ![w].pc = "chunk"]
    /\ UNCHANGED <<pc, df, selected, duplicates, hashes, hash_lock, files,
                   checked_files, sub, tasks, to_sweep, moves, logos0, first_lookup, avars, evars>>

\* functions.py:82-85: the chunks of the body are written and the file is
\* closed; what is left is an image or, when the stream breaks or the body is
\* no image, an undecodable file.
WriteChunks(w) ==
    /\ fetch[w].pc = "chunk"
    /\ \E c \in Contents : logos' = Put(logos, logo_path(selected[w]), c)
    /\ fetch' = [fetch EXCEPT ![w].pc = "exists"]
    /\ UNCHANGED <<pc, df, selected, duplicates, hashes, hash_lock, files,
                   checked_files, sub, tasks, to_sweep, moves, logos0, first_lookup, avars, evars>>

\* main.py:26-27
CheckExists(w) ==
    /\ fetch[w].pc = "exists"
    /\ fetch' = [fetch EXCEPT ![w].pc =
                    IF logo_path(selected[w]) \in DOMAIN logos THEN "open" ELSE "done"]
    /\ UNCHANGED <<pc, df, selected, logos, duplicates, hashes, hash_lock, files,
                   checked_files, sub, tasks, to_sweep, moves, logos0, first_lookup, avars, evars>>

\* functions.py:88-92 on the decoded image
dhash(c) == c.hash

\* main.py:30-31: Image.open and dhash; a failure goes to the except clause
OpenAndHash(w) ==
    /\ fetch[w].pc = "open"
    /\ LET c == logos[logo_path(selected[w])]
       IN fetch' = IF c.pil
                   THEN [fetch EXCEPT ![w].pc = "acquire", ![w].hash_value = dhash(c)]
                   ELSE [fetch EXCEPT ![w].pc = "except"]
    /\ UNCHANGED <<pc, df, selected, logos, duplicates, hashes, hash_lock, files,
                   checked_files, sub, tasks, to_sweep, moves, logos0, first_lookup, avars, evars>>

\* Faulty variant: the critical section is entered without waiting for the lock.
AcquireNoWait(w) ==
    /\ fetch[w].pc = "acquire"
    /\ hash_lock' = w
    /\ fetch' = [fetch EXCEPT ![w].pc = "lookup"]
    /\ UNCHANGED <<pc, df, selected, logos, duplicates, hashes, files,
                   checked_files, sub, tasks, to_sweep, moves, logos0, first_lookup,
                   avars, evars>>

\* main.py:34, entering "with hash_lock"
Acquire(w) ==
    /\ fetch[w].pc = "acquire"
    /\ hash_lock = 0
    /\ hash_lock' = w
    /\ fetch' = [fetch EXCEPT ![w].pc = "lookup"]
    /\ UNCHANGED <<pc, df, selected, logos, duplicates, hashes, files,
                   checked_files, sub, tasks, to_sweep, moves, logos0, first_lookup, avars, evars>>

\* Faulty variant: the membership test is lost, every hash is taken as new.
LookupAlwaysNew(w) ==
    /\ fetch[w].pc = "lookup"
    /\ fetch' = [fetch EXCEPT ![w].pc = "insert"]
    /\ first_lookup' = IF fetch[w].hash_value \in DOMAIN first_lookup
                       THEN first_lookup
                       ELSE Put(first_lookup, fetch[w].hash_value, logo_path(selected[w]))
    /\ UNCHANGED <<pc, df, selected, logos, duplicates, hashes, hash_lock, files,
                   checked_files, sub, tasks, to_sweep, moves, logos0, avars, evars>>

\* main.py:35: "if hash_value in hashes"
Lookup(w) ==
    /\ fetch[w].pc = "lookup"
    /\ fetch' = [fetch EXCEPT ![w].pc =
                    IF fetch[w].hash_value \in DOMAIN hashes THEN "remove_dup" ELSE "insert"]
    /\ first_lookup' = IF fetch[w].hash_value \in DOMAIN first_lookup
                       THEN first_lookup
                       ELSE Put(first_lookup, fetch[w].hash_value, logo_path(selected[w]))
    /\ UNCHANGED <<pc, df, selected, logos, duplicates, hashes, hash_lock, files,
                   checked_files, sub, tasks, to_sweep, moves, logos0, avars, evars>>

\* main.py:37-38: "hashes[hash_value] = logo_path"
Insert(w) ==
    /\ fetch[w].pc = "insert"
    /\ hashes' = Put(hashes, fetch[w].hash_value, logo_path(selected[w]))
    /\ fetch' = [fetch EXCEPT ![w].pc = "release"]
    /\ UNCHANGED <<pc, df, selected, logos, duplicates, hash_lock, files,
                   checked_files, sub, tasks, to_sweep, moves, logos0, first_lookup,
                   avars, evars>>

\* main.py:36: os.remove of the duplicate, inside "with hash_lock"
RemoveDuplicate(w) ==
    /\ fetch[w].pc = "remove_dup"
    /\ logos' = Drop(logos, logo_path(selected[w]))
    /\ fetch' = [fetch EXCEPT ![w].pc = "release"]
    /\ UNCHANGED <<pc, df, selected, duplicates, hashes, hash_lock, files,
                   checked_files, sub, tasks, to_sweep, moves, logos0, first_lookup, avars, evars>>

\* Faulty variant: the lock is not released when the block is left.
ReleaseKeepsLock(w) ==
    /\ fetch[w].pc = "release"
    /\ fetch' = [fetch EXCEPT ![w].pc = "done", ![w].hash_value = 0]
    /\ UNCHANGED <<pc, df, selected, logos, duplicates, hashes, hash_lock, files,
                   checked_files, sub, tasks, to_sweep, moves, logos0, first_lookup,
                   avars, evars>>

\* leaving "with hash_lock"
Release(w) ==
    /\ fetch[w].pc = "release"
    /\ hash_lock' = 0
    /\ fetch' = [fetch EXCEPT ![w].pc = "done", ![w].hash_value = 0]
    /\ UNCHANGED <<pc, df, selected, logos, duplicates, hashes, files,
                   checked_files, sub, tasks, to_sweep, moves, logos0, first_lookup, avars, evars>>

\* main.py:40-41
ExceptRemove(w) ==
    /\ fetch[w].pc = "except"
    /\ logos' = Drop(logos, logo_path(selected[w]))
    /\ fetch' = [fetch EXCEPT ![w].pc = "done"]
    /\ UNCHANGED <<pc, df, selected, duplicates, hashes, hash_lock, files,
                   checked_files, sub, tasks, to_sweep, moves, logos0, first_lookup, avars, evars>>

\* Faulty variant: the pool is left without waiting for its tasks.
ExitFetchPoolNoWait ==
    /\ pc = "fetch"
    /\ pc' = "list"
    /\ UNCHANGED <<df, selected, logos, duplicates, hashes, hash_lock, fetch, files,
                   checked_files, sub, tasks, to_sweep, moves, logos0, first_lookup,
                   avars, evars>>

\* main.py:103-104: leaving the "with" block waits for every fetch task
ExitFetchPool ==
    /\ pc = "fetch"
    /\ \A w \in DOMAIN fetch : fetch[w].pc = "done"
    /\ pc' = "list"
    /\ UNCHANGED <<df, selected, logos, duplicates, hashes, hash_lock, fetch, files,
                   checked_files, sub, tasks, to_sweep, moves, logos0, first_lookup, avars, evars>>

----------------------------------------------------------------------------
(* move_similar_logos, main.py:43-71 *)

\* image[:3], main.py:58
Prefix(name) == Take(name, PrefixLen)

\* main.py:46 and 48-49: os.listdir returns the folder's names in an order the
\* file system chooses.
ListFolder ==
    /\ pc = "list"
    /\ files' \in Listings(DOMAIN logos)
    /\ checked_files' = {}
    /\ sub' = <<1, 2>>
    /\ tasks' = <<>>
    /\ pc' = "submit"
    /\ UNCHANGED <<df, selected, logos, duplicates, hashes, hash_lock, fetch,
                   to_sweep, moves, logos0, first_lookup, avars, evars>>

\* Faulty variant: the two files are handed over in the wrong order.
NewTaskSwapped(image1, image2) ==
    [image1 |-> image2, image2 |-> image1, pc |-> "queued",
     img1 |-> FALSE, img2 |-> FALSE, similarity |-> -1, result |-> "none"]

NewTask(image1, image2) ==
    [image1 |-> image1, image2 |-> image2, pc |-> "queued",
     img1 |-> FALSE, img2 |-> FALSE, similarity |-> -1, result |-> "none"]

\* main.py:66-71: one turn of the inner loop submits one task; the outer loop
\* moves on when the inner one is exhausted.
Submit ==
    /\ pc = "submit"
    /\ sub[1] <= Len(files)
    /\ files[sub[1]] \notin checked_files
    /\ sub[2] <= Len(files)
    /\ tasks' = Append(tasks, NewTask(files[sub[1]], files[sub[2]]))
    /\ sub' = <<sub[1], sub[2] + 1>>
    /\ UNCHANGED <<pc, df, selected, logos, duplicates, hashes, hash_lock, fetch,
                   files, checked_files, to_sweep, moves, logos0, first_lookup, avars, evars>>

\* main.py:67-68 (continue) and 71 (checked_files.add), then the next file1
NextFile ==
    /\ pc = "submit"
    /\ sub[1] <= Len(files)
    /\ files[sub[1]] \in checked_files \/ sub[2] > Len(files)
    /\ checked_files' = IF files[sub[1]] \in checked_files
                        THEN checked_files
                        ELSE checked_files \cup {files[sub[1]]}
    /\ sub' = <<sub[1] + 1, sub[1] + 2>>
    /\ UNCHANGED <<pc, df, selected, logos, duplicates, hashes, hash_lock, fetch,
                   files, tasks, to_sweep, moves, logos0, first_lookup, avars, evars>>

\* main.py:66: the loop over files ends; the "with" block starts to wait
EndSubmit ==
    /\ pc = "submit"
    /\ sub[1] > Len(files)
    /\ pc' = "wait"
    /\ UNCHANGED <<df, selected, logos, duplicates, hashes, hash_lock, fetch,
                   files, checked_files, sub, tasks, to_sweep, moves, logos0, first_lookup, avars, evars>>

CompareRunning == {t \in DOMAIN tasks : tasks[t].pc \notin {"queued", "done"}}

\* A pool thread takes the next queued task (FIFO work queue, max_workers=5).
StartCompare(t) ==
    /\ tasks[t].pc = "queued"
    /\ \A u \in 1..(t - 1) : tasks[u].pc # "queued"
    /\ Cardinality(CompareRunning) < ComparePoolWidth
    /\ tasks' = [tasks EXCEPT ![t].pc = "read1"]
    /\ UNCHANGED <<pc, df, selected, logos, duplicates, hashes, hash_lock, fetch,
                   files, checked_files, sub, to_sweep, moves, logos0, first_lookup, avars, evars>>

\* cv2.imread(path): an image, or None when the file is missing or not decodable
imread(name) == name \in DOMAIN logos /\ logos[name].cv

\* functions.py:96
ReadFirst(t) ==
    /\ tasks[t].pc = "read1"
    /\ tasks' = [tasks EXCEPT ![t].pc = "read2", ![t].img1 = imread(tasks[t].image1)]
    /\ UNCHANGED <<pc, df, selected, logos, duplicates, hashes, hash_lock, fetch,
                   files, checked_files, sub, to_sweep, moves, logos0, first_lookup, avars, evars>>

\* Faulty variant: the threshold is met by a score equal to it.
is_duplicate_at_least(similarity, image1, image2) ==
    similarity >= SimilarityThreshold /\ Prefix(image1) = Prefix(image2)

\* main.py:58
is_duplicate(similarity, image1, image2) ==
    similarity > SimilarityThreshold /\ Prefix(image1) = Prefix(image2)

\* Faulty variant: the None checks of functions.py:100-103 are lost.
ReadSecondNoCheck(t) ==
    /\ tasks[t].pc = "read2"
    /\ \E s \in Scores :
          tasks' = [tasks EXCEPT
             ![t].img2 = imread(tasks[t].image2),
             ![t].similarity = s,
             ![t].pc = IF is_duplicate(s, tasks[t].image1, tasks[t].image2)
                       THEN "move" ELSE "done",
             ![t].result = IF is_duplicate(s, tasks[t].image1, tasks[t].image2)
                           THEN "none" ELSE "different"]
    /\ UNCHANGED <<pc, df, selected, logos, duplicates, hashes, hash_lock, fetch,
                   files, checked_files, sub, to_sweep, moves, logos0, first_lookup,
                   avars, evars>>

\* functions.py:97-116 and main.py:57-58: the second read, the None checks (a
\* FileNotFoundError caught at main.py:61), the score and the decision.
ReadSecond(t) ==
    /\ tasks[t].pc = "read2"
    /\ LET ok2 == imread(tasks[t].image2)
       IN IF tasks[t].img1 /\ ok2
          THEN \E s \in Scores :
                 tasks' = [tasks EXCEPT
                    ![t].img2 = TRUE,
                    ![t].similarity = s,
                    ![t].pc = IF is_duplicate(s, tasks[t].image1, tasks[t].image2)
                              THEN "move" ELSE "done",
                    ![t].result = IF is_duplicate(s, tasks[t].image1, tasks[t].image2)
                                  THEN "none" ELSE "different"]
          ELSE tasks' = [tasks EXCEPT ![t].img2 = ok2, ![t].pc = "done",
                                      ![t].result = "skipped"]
    /\ UNCHANGED <<pc, df, selected, logos, duplicates, hashes, hash_lock, fetch,
                   files, checked_files, sub, to_sweep, moves, logos0, first_lookup, avars, evars>>

\* main.py:60-62: shutil.move(file2_path, duplicates/image2); when the source is
\* gone it raises FileNotFoundError, which the except clause swallows.
Move(t) ==
    /\ tasks[t].pc = "move"
    /\ IF tasks[t].image2 \in DOMAIN logos
       THEN /\ duplicates' = Put(duplicates, tasks[t].image2, logos[tasks[t].image2])
            /\ logos' = Drop(logos, tasks[t].image2)
            /\ tasks' = [tasks EXCEPT ![t].pc = "done", ![t].result = "moved"]
            /\ moves' = moves \cup {[file |-> tasks[t].image2, task |-> t, at |-> pc]}
       ELSE /\ tasks' = [tasks EXCEPT ![t].pc = "done", ![t].result = "skipped"]
            /\ UNCHANGED <<logos, duplicates, moves>>
    /\ UNCHANGED <<pc, df, selected, hashes, hash_lock, fetch, files, checked_files,
                   sub, to_sweep, logos0, first_lookup, avars, evars>>

\* main.py:65: leaving the "with" block waits for every comparison task;
\* main.py:75: delete_corrupted_images lists the folder.
ExitComparePool ==
    /\ pc = "wait"
    /\ \A t \in DOMAIN tasks : tasks[t].pc = "done"
    /\ to_sweep' = DOMAIN logos
    /\ pc' = "sweep"
    /\ UNCHANGED <<df, selected, logos, duplicates, hashes, hash_lock, fetch, files,
                   checked_files, sub, tasks, moves, logos0, first_lookup, avars, evars>>

----------------------------------------------------------------------------
(* delete_corrupted_images, main.py:73-81 *)

\* main.py:76-81, one file of the loop: Image.open, os.remove when it fails
SweepFile ==
    /\ pc = "sweep"
    /\ \E f \in to_sweep :
        /\ to_sweep' = to_sweep \ {f}
        /\ logos' = IF logos[f].pil THEN logos ELSE Drop(logos, f)
    /\ UNCHANGED <<pc, df, selected, duplicates, hashes, hash_lock, fetch, files,
                   checked_files, sub, tasks, moves, logos0, first_lookup, avars, evars>>

\* main.py:113: download_logos returns
Return ==
    /\ pc = "sweep"
    /\ to_sweep = {}
    /\ pc' = "done"
    /\ UNCHANGED <<df, selected, logos, duplicates, hashes, hash_lock, fetch, files,
                   checked_files, sub, tasks, to_sweep, moves, logos0, first_lookup, avars, evars>>

Next ==
    \/ SelectDomains
    \/ \E w \in DOMAIN fetch : StartFetch(w)
    \/ \E w \in DOMAIN fetch : Download(w)
    \/ \E w \in DOMAIN fetch : WriteChunks(w)
    \/ \E w \in DOMAIN fetch : CheckExists(w)
    \/ \E w \in DOMAIN fetch : OpenAndHash(w)
    \/ \E w \in DOMAIN fetch : Acquire(w)
    \/ \E w \in DOMAIN fetch : Lookup(w)
    \/ \E w \in DOMAIN fetch : Insert(w)
    \/ \E w \in DOMAIN fetch : RemoveDuplicate(w)
    \/ \E w \in DOMAIN fetch : Release(w)
    \/ \E w \in DOMAIN fetch : ExceptRemove(w)
    \/ ExitFetchPool
    \/ ListFolder
    \/ Submit
    \/ NextFile
    \/ EndSubmit
    \/ \E t \in DOMAIN tasks : StartCompare(t)
    \/ \E t \in DOMAIN tasks : ReadFirst(t)
    \/ \E t \in DOMAIN tasks : ReadSecond(t)
    \/ \E t \in DOMAIN tasks : Move(t)
    \/ ExitComparePool
    \/ SweepFile
    \/ Return

Spec == Init /\ [][Next]_vars

\* The runs on at most MaxFairDomains domains whose folder starts empty or with
\* an undecodable leftover, with the scheduling the thread pools and the
\* operating system give: while a step of some thread is possible, a step is
\* taken.
InitFair ==
    /\ Init
    /\ Len(df) <= MaxFairDomains
    /\ \A f \in DOMAIN logos : ~logos[f].pil

FairSpec == InitFair /\ [][Next]_vars /\ WF_vars(Next)

----------------------------------------------------------------------------
(* Claims about the download run *)

FetchFinished == pc # "start" /\ \A w \in DOMAIN fetch : fetch[w].pc = "done"

FilesWithHash(h) == {f \in DOMAIN logos : logos[f].hash = h}

\* C1. Exact-dedup phase, from an empty logo folder and an empty registry: a
\* registered holder is never replaced or dropped (the registry always maps a hash
\* to the path of the task that looked it up first) and its file stays in the
\* folder during the phase; when all fetch tasks have finished, no two files of
\* the folder have the same hash, and for every hash some task computed exactly
\* one file with that hash remains, the one of the task that looked it up first.
C1_ExactDedup ==
    logos0 = Empty =>
        /\ \A h \in DOMAIN hashes :
              h \in DOMAIN first_lookup /\ hashes[h] = first_lookup[h]
        /\ pc = "fetch" =>
              \A h \in DOMAIN hashes :
                 hashes[h] \in DOMAIN logos /\ logos[hashes[h]].hash = h
        /\ (FetchFinished /\ pc \in {"fetch", "list"}) =>
              /\ \A f, g \in DOMAIN logos : f # g => logos[f].hash # logos[g].hash
              /\ DOMAIN hashes = DOMAIN first_lookup
              /\ \A h \in DOMAIN first_lookup : FilesWithHash(h) = {first_lookup[h]}

\* A task has deleted its file as an exact duplicate while the holder is kept.
C1_Witness ==
    /\ logos0 = Empty
    /\ \E w \in DOMAIN fetch :
          /\ fetch[w].pc = "release"
          /\ logo_path(selected[w]) \notin DOMAIN logos
          /\ fetch[w].hash_value \in DOMAIN hashes
          /\ hashes[fetch[w].hash_value] \in DOMAIN logos

InsideLock(w) == fetch[w].pc \in {"lookup", "insert", "remove_dup", "release"}

\* C4 as stated: the lock is held only during the lookup-or-insert on the
\* registry, never during I/O, deleting a file included, and at most one task
\* is inside the lookup-or-insert step.
C4_LockOnlyLookupOrInsert ==
    /\ \A w \in DOMAIN fetch :
          hash_lock = w => fetch[w].pc \in {"lookup", "insert", "release"}
    /\ Cardinality({w \in DOMAIN fetch : fetch[w].pc \in {"lookup", "insert"}}) <= 1

\* C4 amended: the lock is held only inside the locked block, which is the
\* lookup-or-insert and the deletion of the task's own duplicate file; never
\* during the download, the existence test, the decoding and hashing, or the
\* deletion in the except clause; and at most one task is inside the block.
C4_LockScope ==
    /\ \A w \in DOMAIN fetch : hash_lock = w <=> InsideLock(w)
    /\ \A w \in DOMAIN fetch :
          fetch[w].pc \in {"queued", "download", "chunk", "exists", "open", "acquire",
                           "except", "done"} => hash_lock # w
    /\ Cardinality({w \in DOMAIN fetch : InsideLock(w)}) <= 1

\* A task deletes its duplicate under the lock while another one waits for it.
C4_Witness ==
    \E w, v \in DOMAIN fetch :
        /\ hash_lock = w
        /\ fetch[w].pc = "remove_dup"
        /\ fetch[v].pc = "acquire"

\* C5. The two pools are never active together: the folder is listed and
\* comparison tasks exist only once every fetch task has finished; the sweep
\* starts only once every comparison task has finished, and every move into
\* "duplicates" happened while the comparison pool was open.
C5_PhaseOrder ==
    /\ (pc \notin {"start", "fetch"} \/ files # <<>> \/ tasks # <<>>) =>
          \A w \in DOMAIN fetch : fetch[w].pc = "done"
    /\ (\E w \in DOMAIN fetch : fetch[w].pc # "done") =>
          (tasks = <<>> /\ moves = {} /\ to_sweep = {})
    /\ pc \in {"sweep", "done"} => \A t \in DOMAIN tasks : tasks[t].pc = "done"
    /\ \A m \in moves : m.at \in {"submit", "wait"}

\* The sweep runs after a fetch phase of two tasks and a move.
C5_Witness ==
    /\ pc = "sweep"
    /\ Len(selected) >= 2
    /\ moves # {}

Separators == {".", "-", "_"}

\* The brand as the claim words it: the longest prefix free of dot, dash and
\* underscore.
Brand(d) ==
    CHOOSE p \in {SubSeq(d, 1, k) : k \in 0..Len(d)} :
        /\ \A i \in 1..Len(p) : p[i] \notin Separators
        /\ Len(p) = Len(d) \/ d[Len(p) + 1] \in Separators

\* The part of the domain before its first dot, followed by ".png".
TargetPath(d) ==
    (CHOOSE p \in {SubSeq(d, 1, k) : k \in 0..Len(d)} :
        /\ \A i \in 1..Len(p) : p[i] # "."
        /\ Len(p) = Len(d) \/ d[Len(p) + 1] = ".") \o PngSuffix

PositionIn(s, x) == CHOOSE i \in DOMAIN s : s[i] = x

\* The state in which SelectDomains has just run; df and selected are written
\* nowhere else.
JustSelected == pc = "fetch" /\ \A w \in DOMAIN fetch : fetch[w].pc = "queued"

\* C7. Once the domains are selected: a domain of the input is selected exactly
\* when no earlier domain of the input has its brand; the selection keeps the
\* input order; selected domains have pairwise distinct brands and pairwise
\* distinct target paths; foo-bar.com has brand foo and foobaz.net brand foobaz;
\* and when the run ends the folder holds at most one of the input's target
\* paths per brand.
C7_BrandSelection ==
    /\ extract_brand(FooBarCom) = <<"f", "o", "o">>
    /\ extract_brand(FoobazNet) = <<"f", "o", "o", "b", "a", "z">>
    /\ JustSelected =>
        /\ \A d \in Range(df) : extract_brand(d) = Brand(d)
        /\ \A i \in DOMAIN df :
              df[i] \in Range(selected) <=>
                 \A j \in 1..(i - 1) : Brand(df[j]) # Brand(df[i])
        /\ Range(selected) \subseteq Range(df)
        /\ \A a, b \in DOMAIN selected :
              a < b => /\ PositionIn(df, selected[a]) < PositionIn(df, selected[b])
                       /\ Brand(selected[a]) # Brand(selected[b])
                       /\ TargetPath(selected[a]) # TargetPath(selected[b])
        /\ \A w \in DOMAIN selected : logo_path(selected[w]) = TargetPath(selected[w])
    /\ pc = "done" =>
          \A d, e \in Range(df) :
             (/\ Brand(d) = Brand(e)
              /\ TargetPath(d) \in DOMAIN logos
              /\ TargetPath(e) \in DOMAIN logos) => TargetPath(d) = TargetPath(e)

\* Two domains of one brand and one of another were given; the run has ended
\* with the images of both brands in the folder.
C7_Witness ==
    /\ pc = "done"
    /\ {FooXOrg, FooBarCom, FoobazNet} \subseteq Range(df)
    /\ Len(selected) = 2
    /\ Cardinality(DOMAIN logos) = 2

\* C6. Under fair scheduling every run ends, whatever fails on the way; at the
\* end every fetch and comparison task has finished, the sweep has visited every
\* file, no undecodable file is left, and the folder holds nothing but target
\* paths of selected domains and files that were there before.
C6_AlwaysCompletes ==
    /\ <>(pc = "done")
    /\ [](pc = "done" =>
            /\ \A w \in DOMAIN fetch : fetch[w].pc = "done"
            /\ \A t \in DOMAIN tasks : tasks[t].pc = "done"
            /\ to_sweep = {}
            /\ \A f \in DOMAIN logos : logos[f].pil
            /\ DOMAIN logos \subseteq
                  {logo_path(selected[w]) : w \in DOMAIN selected} \cup DOMAIN logos0)

\* A run has ended after a failed fetch, a skipped comparison and a sweep that
\* deleted a file: fewer images than selected domains are left.
C6_Witness ==
    /\ pc = "done"
    /\ \E t \in DOMAIN tasks : tasks[t].result = "skipped"
    /\ \E f \in DOMAIN logos0 : f \notin DOMAIN logos /\ f \notin DOMAIN duplicates
    /\ Cardinality(DOMAIN logos) < Len(selected)

----------------------------------------------------------------------------
(* move_similar_logos on any folder: the run of download_logos whose domain   *)
(* column is empty, so that "logos" holds what earlier runs left there.       *)

Abc1Png == <<"a","b","c","_","1">> \o PngSuffix
Abc2Png == <<"a","b","c","_","2">> \o PngSuffix
Abc3Png == <<"a","b","c","_","3">> \o PngSuffix
Xyz1Png == <<"x","y","z","_","1">> \o PngSuffix

FilePool == {Abc1Png, Abc2Png, Abc3Png, Xyz1Png}

Folders ==
    UNION {[names -> {Img1, Ico1}] :
             names \in {n \in SUBSET FilePool : Cardinality(n) <= MaxFiles}}

InitCompare ==
    /\ pc = "list"
    /\ df = <<>>
    /\ selected = <<>>
    /\ logos \in Folders
    /\ logos0 = logos
    /\ duplicates = Empty
    /\ hashes = Empty
    /\ hash_lock = 0
    /\ fetch = <<>>
    /\ files = <<>>
    /\ checked_files = {}
    /\ sub = <<1, 2>>
    /\ tasks = <<>>
    /\ to_sweep = {}
    /\ moves = {}
    /\ first_lookup = Empty
    /\ method = "none"
    /\ todo = <<>>
    /\ analysis_results = <<>>
    /\ csv_file = NoFile
    /\ md_file = NoFile
    /\ csv0 = NoFile
    /\ rgb_list = <<>>
    /\ emotion = "none"

NextCompare ==
    \/ ListFolder
    \/ Submit
    \/ NextFile
    \/ EndSubmit
    \/ \E t \in DOMAIN tasks : StartCompare(t)
    \/ \E t \in DOMAIN tasks : ReadFirst(t)
    \/ \E t \in DOMAIN tasks : ReadSecond(t)
    \/ \E t \in DOMAIN tasks : Move(t)
    \/ ExitComparePool

SpecCompare == InitCompare /\ [][NextCompare]_vars

----------------------------------------------------------------------------
(* Claims about the near-dedup phase *)

\* The two names have the same first three characters.
SamePrefix3(a, b) ==
    \A i \in 1..3 : /\ (i <= Len(a)) <=> (i <= Len(b))
                    /\ i <= Len(a) => a[i] = b[i]

\* The rule of the claim for task t.
NearDuplicate(t) ==
    /\ tasks[t].img1
    /\ tasks[t].img2
    /\ tasks[t].similarity > 49
    /\ SamePrefix3(tasks[t].image1, tasks[t].image2)

MovedBy(t) == {m \in moves : m.task = t}

\* C2 as stated: a task that has ended has moved file2 if and only if both
\* images decoded, the score is above 49 and the names share their first 3
\* characters; it never moves file1.
C2_MovesIffRule ==
    /\ \A m \in moves :
          m.file = tasks[m.task].image2 /\ m.file # tasks[m.task].image1
    /\ \A t \in DOMAIN tasks :
          tasks[t].pc = "done" =>
             /\ MovedBy(t) # {} <=> NearDuplicate(t)
             /\ tasks[t].result = "moved" <=> NearDuplicate(t)

\* C2 amended. A task moves a file only when both images decoded, the score is above
\* 49 and the names share their first 3 characters, and the file it moves is
\* file2, never file1; a task for which the three conditions hold moves file2,
\* unless another task has moved file2 first, so that file2 is in "duplicates"
\* when the task ends. With differing prefixes nothing is moved whatever the
\* score; a score of 49 moves nothing; abc_1.png/abc_2.png at 60 relocates
\* abc_2.png; abc_1.png/xyz_1.png at 90 relocates nothing.
C2_DecisionRule ==
    /\ \A m \in moves :
          /\ m.file = tasks[m.task].image2
          /\ m.file # tasks[m.task].image1
          /\ NearDuplicate(m.task)
    /\ \A t \in DOMAIN tasks :
          /\ tasks[t].pc = "move" => NearDuplicate(t)
          /\ tasks[t].pc = "done" =>
                /\ tasks[t].result = "moved" <=> MovedBy(t) # {}
                /\ NearDuplicate(t) =>
                      /\ tasks[t].image2 \notin DOMAIN logos
                      /\ tasks[t].image2 \in DOMAIN duplicates
                      /\ \/ tasks[t].result = "moved"
                         \/ /\ tasks[t].result = "skipped"
                            /\ \E m \in moves :
                                  m.file = tasks[t].image2 /\ m.task # t
                /\ ~NearDuplicate(t) => MovedBy(t) = {}
                /\ tasks[t].similarity = 49 => tasks[t].result # "moved"
                /\ (/\ tasks[t].image1 = Abc1Png
                    /\ tasks[t].image2 = Abc2Png
                    /\ tasks[t].similarity = 60) => Abc2Png \in DOMAIN duplicates
                /\ (/\ tasks[t].image1 = Abc1Png
                    /\ tasks[t].image2 = Xyz1Png
                    /\ tasks[t].similarity = 90) =>
                      /\ tasks[t].result = "different"
                      /\ Xyz1Png \in DOMAIN logos

\* abc_1.png/abc_2.png scored 60 and abc_2.png was moved by that task, while
\* abc_1.png/xyz_1.png scored 90 and xyz_1.png stayed.
C2_Witness ==
    \E t, u \in DOMAIN tasks :
        /\ tasks[t].image1 = Abc1Png /\ tasks[t].image2 = Abc2Png
        /\ tasks[t].similarity = 60 /\ tasks[t].result = "moved"
        /\ tasks[u].image1 = Abc1Png /\ tasks[u].image2 = Xyz1Png
        /\ tasks[u].similarity = 90 /\ tasks[u].pc = "done"
        /\ Abc1Png \in DOMAIN logos

\* Task t finds a file of its pair gone when it reads the second image.
VanishedAtRead(t) ==
    /\ tasks[t].pc = "read2"
    /\ \/ ~tasks[t].img1 /\ tasks[t].image1 \notin DOMAIN logos
       \/ tasks[t].image2 \notin DOMAIN logos

\* Task t is about to move file2, which another task has moved already.
MoveWillFail(t) ==
    /\ tasks[t].pc = "move"
    /\ tasks[t].image2 \notin DOMAIN logos

\* The step of a task that meets the race ends the task as skipped and changes
\* nothing else.
C3_Step ==
    \A t \in DOMAIN tasks :
        ((VanishedAtRead(t) \/ MoveWillFail(t)) /\ tasks'[t] # tasks[t]) =>
            /\ tasks'[t].pc = "done"
            /\ tasks'[t].result = "skipped"
            /\ logos' = logos
            /\ duplicates' = duplicates
            /\ moves' = moves
            /\ pc' = pc
            /\ \A u \in DOMAIN tasks : u # t => tasks'[u] = tasks[u]

\* C3. Under every interleaving, a comparison task that finds a file of its
\* pair already moved, or whose move fails because another task moved the file
\* first, ends as a skipped pair in a step that changes neither folder; a
\* skipped task has moved nothing; and when the pool is left every pair of the
\* listing has been submitted and has run to its end.
C3_RaceSkipped ==
    /\ [][C3_Step]_vars
    /\ [](/\ \A t \in DOMAIN tasks : tasks[t].result = "skipped" => MovedBy(t) = {}
          /\ pc = "sweep" =>
                /\ 2 * Len(tasks) = Len(files) * (Len(files) - 1)
                /\ \A t \in DOMAIN tasks : tasks[t].pc = "done")

\* Two tasks decided to move the same file: one moved it, the other lost the
\* race for the move and ended as skipped, and the pool has been left.
C3_Witness ==
    /\ pc = "sweep"
    /\ \E t, u \in DOMAIN tasks :
          /\ t # u
          /\ tasks[t].result = "skipped" /\ NearDuplicate(t)
          /\ tasks[u].result = "moved" /\ tasks[u].image2 = tasks[t].image2

\* C10. A file is moved only if a file listed before it has the same first 3
\* characters: the first-listed file of every prefix group, and so the first
\* file of the listing, stays in the folder, and every prefix group keeps a file.
C10_FirstOfGroupStays ==
    /\ \A m \in moves :
          \E i, j \in DOMAIN files :
              i < j /\ files[j] = m.file /\ SamePrefix3(files[i], files[j])
    /\ \A j \in DOMAIN files :
          (\A i \in 1..(j - 1) : ~SamePrefix3(files[i], files[j])) =>
              files[j] \in DOMAIN logos /\ files[j] \notin DOMAIN duplicates
    /\ files # <<>> => files[1] \in DOMAIN logos
    /\ \A j \in DOMAIN files :
          \E i \in DOMAIN files :
              SamePrefix3(files[i], files[j]) /\ files[i] \in DOMAIN logos

\* Of three listed files of one prefix group the last two have been moved.
C10_Witness ==
    /\ pc = "sweep"
    /\ Len(files) = 3
    /\ Cardinality({m.file : m \in moves}) = 2
    /\ DOMAIN logos = {files[1]}

----------------------------------------------------------------------------
(* Colours, functions.py:19-37 and 140-151 *)

BroadNames == <<"Red", "Orange", "Yellow", "Green", "Blue", "White", "Black">>

\* functions.py:19-27, in the dict's order
BROAD_COLORS ==
    [n \in Range(BroadNames) |->
        CASE n = "Red"    -> <<220, 20, 60>>
          [] n = "Orange" -> <<255, 165, 0>>
          [] n = "Yellow" -> <<255, 255, 0>>
          [] n = "Green"  -> <<34, 139, 34>>
          [] n = "Blue"   -> <<30, 144, 255>>
          [] n = "White"  -> <<255, 255, 255>>
          [] n = "Black"  -> <<0, 0, 0>>]

\* functions.py:29-37
COLOR_WARMTH ==
    [n \in Range(BroadNames) |->
        CASE n \in {"Red", "Orange", "Yellow"} -> 1
          [] n \in {"Green", "Blue"} -> -1
          [] OTHER -> 0]

\* functions.py:146: the sum under the square root. np.sqrt is increasing and
\* maps distinct integers of this size to distinct floats, so "<" on the
\* distances is "<" on these sums.
distance2(rgb, color_rgb) ==
    (rgb[1] - color_rgb[1]) * (rgb[1] - color_rgb[1])
  + (rgb[2] - color_rgb[2]) * (rgb[2] - color_rgb[2])
  + (rgb[3] - color_rgb[3]) * (rgb[3] - color_rgb[3])

\* functions.py:145-149: the loop from entry i on; min_distance < 0 stands for
\* float("inf").
RECURSIVE closest_loop(_, _, _, _)
closest_loop(rgb, i, min_distance, closest_color) ==
    IF i > Len(BroadNames) THEN closest_color
    ELSE LET distance == distance2(rgb, BROAD_COLORS[BroadNames[i]])
         IN IF min_distance < 0 \/ distance < min_distance
            THEN closest_loop(rgb, i + 1, distance, BroadNames[i])
            ELSE closest_loop(rgb, i + 1, min_distance, closest_color)

\* functions.py:140-151
closest_broad_color(rgb) == closest_loop(rgb, 1, -1, "None")

RgbSamples ==
    {<<255, 0, 0>>, <<255, 140, 0>>, <<250, 250, 10>>, <<0, 128, 0>>,
     <<0, 0, 255>>, <<250, 250, 250>>, <<10, 10, 10>>, <<128, 128, 128>>}

----------------------------------------------------------------------------
(* analyze_emotion, functions.py:221-241 *)

\* functions.py:224: Counter of the broad colour of every cluster colour
color_counts(rgbs) ==
    [c \in {closest_broad_color(rgbs[i]) : i \in DOMAIN rgbs} |->
        Cardinality({i \in DOMAIN rgbs : closest_broad_color(rgbs[i]) = c})]

RECURSIVE SumOver(_, _)
SumOver(S, f) ==
    IF S = {} THEN 0
    ELSE LET x == CHOOSE y \in S : TRUE IN f[x] + SumOver(S \ {x}, f)

\* Faulty variant: every bucket counts once, whatever its number of clusters.
warmth_sum_unweighted(counts) ==
    SumOver(DOMAIN counts, [c \in DOMAIN counts |-> COLOR_WARMTH[c]])

\* functions.py:227-230: most_common(8) keeps every bucket (there are 7 at
\* most); the sum of warmth * count over them
warmth_sum(counts) ==
    SumOver(DOMAIN counts, [c \in DOMAIN counts |-> COLOR_WARMTH[c] * counts[c]])

\* functions.py:231-241 with warmth_score = total / n, n > 0:
\* total / n > 0.5 is 2 * total > n, total / n < -0.5 is 2 * total < -n.
emotion_label(total, n) ==
    IF 2 * total > n THEN "Energetic & Passionate"
    ELSE IF total > 0 THEN "Warm & Friendly"
    ELSE IF 2 * total < -n THEN "Cool & Professional"
    ELSE IF total < 0 THEN "Calm & Trustworthy"
    ELSE "Balanced & Neutral"

\* functions.py:221-241 on the cluster colours of extract_main_colors
analyze_emotion(rgbs) ==
    LET counts == color_counts(rgbs)
    IN emotion_label(warmth_sum(counts), Cardinality(DOMAIN counts))

\* functions.py:207-219: at most two broad colours among the cluster colours
describe_logo_colors(rgb_colors) ==
    Cardinality(DOMAIN color_counts(rgb_colors)) <= 2

\* extract_main_colors returns num_colors cluster centres (functions.py:195-205)
RgbLists == [1..num_colors -> RgbSamples]

----------------------------------------------------------------------------
(* analyze_logos, main.py:115-149, and display_color_analysis,               *)
(* functions.py:162-191                                                      *)

DigitChars == <<"0", "1", "2", "3", "4", "5", "6", "7", "8", "9">>

\* str(n) for n >= 0
RECURSIVE str_int(_)
str_int(n) ==
    IF n < 10 THEN <<DigitChars[n + 1]>>
    ELSE str_int(n \div 10) \o <<DigitChars[(n % 10) + 1]>>

\* str((r, g, b)), what to_csv writes for a tuple (main.py:148)
str_tuple(rgb) ==
    <<"(">> \o str_int(rgb[1]) \o <<",", " ">> \o str_int(rgb[2])
            \o <<",", " ">> \o str_int(rgb[3]) \o <<")">>

DigitValue(c) == (CHOOSE k \in DOMAIN DigitChars : DigitChars[k] = c) - 1

RECURSIVE parse_int(_)
parse_int(s) ==
    IF Len(s) = 1 THEN DigitValue(s[1])
    ELSE 10 * parse_int(SubSeq(s, 1, Len(s) - 1)) + DigitValue(s[Len(s)])

\* The text after the first separator and the blank that follows it
AfterComma(s) == SubSeq(s, FirstIn(s, {","}, 1) + 2, Len(s))

\* ast.literal_eval on "(r, g, b)" (functions.py:171)
literal_eval(s) ==
    LET inner == SubSeq(s, 2, Len(s) - 1)
        rest == AfterComma(inner)
    IN <<parse_int(SplitFirst(inner, {","})),
         parse_int(SplitFirst(rest, {","})),
         parse_int(AfterComma(rest))>>

\* str(b) for a bool, what to_csv writes for it (main.py:148)
str_bool(b) == IF b THEN <<"T", "r", "u", "e">> ELSE <<"F", "a", "l", "s", "e">>

\* None among colour tuples and lists
None == <<>>

\* The values of --type (main.py:172)
Methods == {"color", "minimalism", "emotion"}

\* An image of the folder as the colour analysis sees it: whether Image.open
\* succeeds and what get_main_color returns (functions.py:120-127: a colour, or
\* None).
AnalysisContents ==
    {[pil |-> FALSE, main_color |-> None], [pil |-> TRUE, main_color |-> None]}
    \cup {[pil |-> TRUE, main_color |-> c] :
             c \in {<<255, 0, 0>>, <<0, 0, 255>>, <<128, 128, 128>>}}

AnalysisFolders == UNION {[names -> AnalysisContents] : names \in SUBSET {Abc1Png, Xyz1Png}}

\* An image of the folder as the minimalism and emotion analyses see it:
\* whether Image.open succeeds and what extract_main_colors returns, the
\* cluster centres, or None when it raises (cv2.imread gave None,
\* functions.py:197-198).
ClusterContents(lists) ==
    {[pil |-> FALSE, rgbs |-> None], [pil |-> TRUE, rgbs |-> None]}
    \cup {[pil |-> TRUE, rgbs |-> l] : l \in lists}

\* Three red clusters, a blue and a white one; two colours; one colour
FewRgbLists ==
    {<<<<255, 0, 0>>, <<255, 0, 0>>, <<255, 0, 0>>, <<0, 0, 255>>, <<250, 250, 250>>>>,
     <<<<0, 0, 255>>, <<250, 250, 250>>, <<0, 0, 255>>, <<0, 0, 255>>, <<250, 250, 250>>>>,
     [i \in 1..num_colors |-> <<10, 10, 10>>]}

\* Up to two images out of a few
ClusterFolders ==
    UNION {[names -> ClusterContents(FewRgbLists)] : names \in SUBSET {Abc1Png, Xyz1Png}}

\* For the emotion analysis also one image with any cluster colours
EmotionFolders == ClusterFolders \cup [{Abc1Png} -> ClusterContents(RgbLists)]

\* The rows of the colour data frame as to_csv writes them and read_csv reads
\* them back: the logo and the text of the colour tuple. (Color_Group, the CSS
\* name of webcolors, is left out: nothing reads it.)
Row(logo, main_color) == [Logo |-> logo, Main_Color_RGB |-> str_tuple(main_color)]

\* The rows of the other two data frames (main.py:144 and 146)
MinimalismRow(logo, is_minimalist) == [Logo |-> logo, Minimalist |-> str_bool(is_minimalist)]

EmotionRow(logo, label) == [Logo |-> logo, Emotion |-> label]

\* analysis_color.csv as an earlier run may have left it
OldCsvs == {NoFile, File(<<>>), File(<<Row(Abc1Png, <<0, 128, 0>>)>>)}

InitAnalyze ==
    /\ pc = "analyze"
    /\ method \in Methods
    /\ logos \in CASE method = "color" -> AnalysisFolders
                  [] method = "minimalism" -> ClusterFolders
                  [] method = "emotion" -> EmotionFolders
    /\ logos0 = logos
    /\ csv_file \in IF method = "color" THEN OldCsvs ELSE {NoFile}
    /\ csv0 = csv_file
    /\ md_file = NoFile
    /\ todo = <<>>
    /\ analysis_results = <<>>
    /\ df = <<>>
    /\ selected = <<>>
    /\ duplicates = Empty
    /\ hashes = Empty
    /\ hash_lock = 0
    /\ fetch = <<>>
    /\ files = <<>>
    /\ checked_files = {}
    /\ sub = <<1, 2>>
    /\ tasks = <<>>
    /\ to_sweep = {}
    /\ moves = {}
    /\ first_lookup = Empty
    /\ rgb_list = <<>>
    /\ emotion = "none"

\* main.py:121: os.listdir(input_folder)
ListForAnalysis ==
    /\ pc = "analyze"
    /\ todo' \in Listings(DOMAIN logos)
    /\ pc' = "loop"
    /\ UNCHANGED <<df, selected, logos, duplicates, hashes, hash_lock, fetch, files,
                   checked_files, sub, tasks, to_sweep, moves, logos0, first_lookup,
                   method, analysis_results, csv_file, md_file, csv0, evars>>

\* main.py:122-137, one file. Image.open, then by method: get_main_color and
\* get_colour_name (which raises on None); extract_main_colors and
\* describe_logo_colors; analyze_emotion, which calls extract_main_colors
\* itself. The row is appended; any exception skips the file.
AnalyzeFile ==
    /\ pc = "loop"
    /\ todo # <<>>
    /\ LET filename == Head(todo)
           c == logos[filename]
       IN CASE method = "color" ->
                 /\ analysis_results' =
                       IF c.pil /\ c.main_color # None
                       THEN Append(analysis_results, <<filename, c.main_color>>)
                       ELSE analysis_results
                 /\ UNCHANGED evars
            [] method = "minimalism" ->
                 IF c.pil /\ c.rgbs # None
                 THEN /\ rgb_list' = c.rgbs
                      /\ analysis_results' =
                            Append(analysis_results,
                                   <<filename, describe_logo_colors(c.rgbs)>>)
                      /\ UNCHANGED emotion
                 ELSE UNCHANGED <<analysis_results, evars>>
            [] method = "emotion" ->
                 IF c.pil /\ c.rgbs # None
                 THEN /\ rgb_list' = c.rgbs
                      /\ emotion' = analyze_emotion(c.rgbs)
                      /\ analysis_results' =
                            Append(analysis_results, <<filename, emotion'>>)
                 ELSE UNCHANGED <<analysis_results, evars>>
    /\ todo' = Tail(todo)
    /\ UNCHANGED <<pc, df, selected, logos, duplicates, hashes, hash_lock, fetch, files,
                   checked_files, sub, tasks, to_sweep, moves, logos0, first_lookup,
                   method, csv_file, md_file, csv0>>

\* functions.py:167-175: color_groups after the loop over the rows from row i on
RECURSIVE group_rows(_, _, _)
group_rows(rows, i, color_groups) ==
    IF i > Len(rows) THEN color_groups
    ELSE LET broad_color == closest_broad_color(literal_eval(rows[i].Main_Color_RGB))
         IN group_rows(rows, i + 1,
               [color_groups EXCEPT ![broad_color] = Append(@, rows[i].Logo)])

\* functions.py:162-191 on the rows of the CSV file
color_groups_of(rows) == group_rows(rows, 1, [c \in Range(BroadNames) |-> <<>>])

\* main.py:140-142, method "color": the loop is over; display_color_analysis
\* reads analysis_color.csv from disk. pd.read_csv raises FileNotFoundError when
\* the file is not there, and nothing catches it: analyze_logos ends with the
\* error.
DisplayColorAnalysis ==
    /\ pc = "loop"
    /\ todo = <<>>
    /\ method = "color"
    /\ IF ~csv_file.exists
       THEN /\ pc' = "failed"
            /\ UNCHANGED md_file
       ELSE /\ md_file' = File(color_groups_of(csv_file.content))
            /\ pc' = "to_csv"
    /\ UNCHANGED <<df, selected, logos, duplicates, hashes, hash_lock, fetch, files,
                   checked_files, sub, tasks, to_sweep, moves, logos0, first_lookup,
                   method, todo, analysis_results, csv_file, csv0, evars>>

\* main.py:141, 144, 146: the data frame of this run, by method
results_df ==
    [i \in DOMAIN analysis_results |->
        CASE method = "color" -> Row(analysis_results[i][1], analysis_results[i][2])
          [] method = "minimalism" ->
                MinimalismRow(analysis_results[i][1], analysis_results[i][2])
          [] OTHER -> EmotionRow(analysis_results[i][1], analysis_results[i][2])]

\* main.py:143-148: the data frame is written to analysis_<method>.csv, for
\* "color" once display_color_analysis has returned, for the other methods as
\* soon as the loop is over
ToCsv ==
    /\ \/ pc = "to_csv"
       \/ pc = "loop" /\ todo = <<>> /\ method # "color"
    /\ csv_file' = File(results_df)
    /\ pc' = "analyzed"
    /\ UNCHANGED <<df, selected, logos, duplicates, hashes, hash_lock, fetch, files,
                   checked_files, sub, tasks, to_sweep, moves, logos0, first_lookup,
                   method, todo, analysis_results, md_file, csv0, evars>>

NextAnalyze ==
    \/ ListForAnalysis
    \/ AnalyzeFile
    \/ DisplayColorAnalysis
    \/ ToCsv

SpecAnalyze == InitAnalyze /\ [][NextAnalyze]_vars

----------------------------------------------------------------------------
(* Claims about analyze mode *)

\* The bucket of a colour as the claim words it: the palette entry at the
\* smallest Euclidean distance, the earlier entry on a tie.
Bucket(rgb) ==
    LET d == [k \in DOMAIN BroadNames |-> distance2(rgb, BROAD_COLORS[BroadNames[k]])]
        best == CHOOSE k \in DOMAIN BroadNames :
                   \A j \in DOMAIN BroadNames : d[k] < d[j] \/ (d[k] = d[j] /\ k <= j)
    IN BroadNames[best]

Labels ==
    {"Energetic & Passionate", "Warm & Friendly", "Cool & Professional",
     "Calm & Trustworthy", "Balanced & Neutral"}

\* The label is the one of the claim's bands for the list of cluster colours:
\* the score is (warm clusters - cool clusters) / (distinct buckets present).
InBand(label, rgbs) ==
    LET bucket == [i \in DOMAIN rgbs |-> Bucket(rgbs[i])]
        warm == Cardinality({i \in DOMAIN rgbs : bucket[i] \in {"Red", "Orange", "Yellow"}})
        cool == Cardinality({i \in DOMAIN rgbs : bucket[i] \in {"Green", "Blue"}})
        n == Cardinality({bucket[i] : i \in DOMAIN rgbs})
        total == warm - cool
    IN /\ label \in Labels
       /\ label = "Energetic & Passionate" <=> 2 * total > n
       /\ label = "Warm & Friendly" <=> (total > 0 /\ 2 * total <= n)
       /\ label = "Cool & Professional" <=> 2 * total < -n
       /\ label = "Calm & Trustworthy" <=> (total < 0 /\ 2 * total >= -n)
       /\ label = "Balanced & Neutral" <=> total = 0

\* C9. In an emotion analysis the label returned for a list of cluster colours
\* is one of the 5 labels, the one of the bands taken in the stated order for
\* the score (warm clusters - cool clusters) / (number of distinct buckets
\* present): each bucket present weighs its warmth (Red, Orange, Yellow +1;
\* Green, Blue -1; White, Black 0) once per cluster colour that falls into it.
\* The label recorded for every analysed logo is that label, and the label
\* returned last is the one recorded last.
C9_EmotionBands ==
    method = "emotion" =>
        /\ \A i \in DOMAIN analysis_results :
              InBand(analysis_results[i][2], logos[analysis_results[i][1]].rgbs)
        /\ emotion # "none" =>
              /\ analysis_results # <<>>
              /\ emotion = analysis_results[Len(analysis_results)][2]
              /\ rgb_list = logos[analysis_results[Len(analysis_results)][1]].rgbs

\* Three red clusters, a blue and a white one: 2 / 3 is above 0.5, and the
\* label has been recorded for the logo.
C9_Witness ==
    /\ method = "emotion"
    /\ Len(rgb_list) = 5
    /\ Cardinality({i \in DOMAIN rgb_list : Bucket(rgb_list[i]) = "Red"}) = 3
    /\ Cardinality({i \in DOMAIN rgb_list : Bucket(rgb_list[i]) = "Blue"}) = 1
    /\ Cardinality({i \in DOMAIN rgb_list : Bucket(rgb_list[i]) = "White"}) = 1
    /\ emotion = "Energetic & Passionate"
    /\ analysis_results = <<<<Abc1Png, "Energetic & Passionate">>>>

\* The logos of the folder that decode and have a main colour
Analysable == {f \in DOMAIN logos : logos[f].pil /\ logos[f].main_color # None}

\* C8. A run of analyze mode with type=color ends without a hard failure, also
\* when no analysis_color.csv existed before; analysis_color.csv then holds one
\* row per logo analysed in this run, and color_analysis.md lists every logo of
\* that CSV under exactly one heading, the one closest_broad_color gives for
\* its Main_Color_RGB.
C8_ColorReport ==
    method = "color" =>
        /\ pc # "failed"
        /\ pc = "analyzed" =>
              /\ csv_file.exists
              /\ md_file.exists
              /\ LET rows == csv_file.content
                     groups == md_file.content
                     listed == {rows[i].Logo : i \in DOMAIN rows}
                 IN /\ listed = Analysable
                    /\ Len(rows) = Cardinality(Analysable)
                    /\ \A i \in DOMAIN rows :
                          rows[i].Main_Color_RGB =
                             str_tuple(logos[rows[i].Logo].main_color)
                    /\ \A i \in DOMAIN rows : \A h \in Range(BroadNames) :
                          rows[i].Logo \in Range(groups[h]) <=>
                             h = Bucket(logos[rows[i].Logo].main_color)
                    /\ \A h \in Range(BroadNames) : Range(groups[h]) \subseteq listed

====
